---------------------------- MODULE Spec2Model ----------------------------
(***************************************************************************)
(* Retrieval pipeline of the document chatbot: chunking, embedding, the    *)
(* per-user documents table, nearest-neighbour retrieval, the answer       *)
(* generator call and the chat_history table.  Two front ends share the    *)
(* pipeline: the FastAPI handlers of src/app/main.py ("api") and the       *)
(* Streamlit functions of src/frontend.py ("ui").                          *)
(*                                                                         *)
(* src/app/embedding.py builds the SentenceTransformer without binding it  *)
(* to a name, so get_embedding raises NameError on every text.  The        *)
(* handlers are modelled as they run with that source: an ingestion fails  *)
(* at its first chunk and a question fails before its select statement.    *)
(* The tables outlive the process (init_database creates the missing ones  *)
(* only), so a behaviour starts with the rows that are stored already.     *)
(*                                                                         *)
(* A text is a sequence of one-character strings.  Each client of Reqs has  *)
(* one request at a time; a handler is cut where it meets the database,    *)
(* the file system or the network, so that requests interleave as their    *)
(* transactions and system calls do.                                       *)
(*                                                                         *)
(* Spec       the handlers and the ui functions, called by two clients     *)
(* UiSpec     one browser session of the Streamlit script, with its        *)
(*            st.session_state, next to one client of the api              *)
(* ChunkSpec  chunk_text applied to every small text                       *)
(* SelectSpec the select statement of ask_question applied to every small  *)
(*            table, owner and query vector                                *)
(* GenSpec    ask_mistral called with every small question and context     *)
(***************************************************************************)
EXTENDS Integers, Sequences, FiniteSets, TLC

VARIABLES
    documents,   \* the documents table: rows in id order
    history,     \* the chat_history table: rows in id order
    req,         \* client -> its request in progress, or its response when no call has followed
    started,     \* number of requests issued so far
    tmp,         \* file name -> the file /tmp/<name> of the api's uploads
    session,     \* st.session_state of one browser session of the ui
    sel,         \* select harness: owner, query vector and the rows returned
    gen,         \* ask_mistral harness: the arguments and the place of the call
    cText,       \* chunk_text harness: the input text
    cMax,        \* chunk_text harness: max_words
    cChunks,     \* chunk_text harness: the returned list
    cDone        \* chunk_text harness: chunk_text has returned

vars ==
    <<documents, history, req, started, tmp, session, sel, gen,
      cText, cMax, cChunks, cDone>>

storeVars == <<documents, history, req, started, tmp>>

chunkVars == <<cText, cMax, cChunks, cDone>>

\* what the handlers never touch
harnessVars == <<sel, gen, chunkVars>>

----------------------------------------------------------------------------
(* Bounds of the model *)

\* number of requests the clients issue in one behaviour
MaxRequests == 2

\* number of rows the two tables hold together when a behaviour starts
MaxRows == 2

\* longest text given to chunk_text in ChunkSpec
MaxLen == 6

\* largest max_words given to chunk_text in ChunkSpec
MaxUnits == 3

\* number of rows of the table in SelectSpec
MaxSelectRows == 4

\* longest context_docs given to ask_mistral in GenSpec
MaxContext == 3

(* Program constants *)

\* chunk_text(text, max_words=100)
DefaultMaxWords == 100

\* .limit(3)
TopK == 3

Users == {1, 2}

Reqs == {1, 2}

Impls == {"api", "ui"}

\* characters str.split() separates on (two of them)
Whitespace == {" ", "\n"}

Chars == {"a", "b"} \cup Whitespace

Min(a, b) == IF a <= b THEN a ELSE b

----------------------------------------------------------------------------
(* src/app/embedding.py *)

\* text.split(): the maximal runs of non-whitespace characters, in order.
\* A word starts where a non-whitespace character follows whitespace or
\* opens the text, and runs to the last character before the next whitespace.
WordStarts(t) ==
    {i \in 1..Len(t) : t[i] \notin Whitespace /\ (i = 1 \/ t[i - 1] \in Whitespace)}

WordEnd(t, s) ==
    CHOOSE e \in s..Len(t) :
        /\ \A j \in s..e : t[j] \notin Whitespace
        /\ e = Len(t) \/ t[e + 1] \in Whitespace

Split(t) ==
    LET starts == WordStarts(t)
        kth(k) == CHOOSE i \in starts : Cardinality({j \in starts : j <= i}) = k
    IN  [k \in 1..Cardinality(starts) |-> SubSeq(t, kth(k), WordEnd(t, kth(k)))]

\* ' '.join(words)
RECURSIVE Join(_)
Join(words) ==
    IF words = <<>> THEN <<>>
    ELSE IF Len(words) = 1 THEN words[1]
    ELSE LET h == Len(words) \div 2
         IN  Join(SubSeq(words, 1, h)) \o <<" ">> \o Join(SubSeq(words, h + 1, Len(words)))

\* range(0, len(words), max_words): one window per start index
NumWindowsDropLast(n, max_words) == n \div max_words

NumWindows(n, max_words) == (n + max_words - 1) \div max_words

\* [' '.join(words[i:i+max_words]) for i in range(0, len(words), max_words)]
chunk_text(text, max_words) ==
    LET words == Split(text)
        n == NumWindows(Len(words), max_words)
    IN  [k \in 1..n |->
            Join(SubSeq(words, (k - 1) * max_words + 1,
                        Min(k * max_words, Len(words))))]

\* str(e) of the NameError
NameErrorText == "name 'embedder' is not defined"

\* return embedder.encode([text])[0]: line 6 calls SentenceTransformer(...)
\* and binds the result to no name, the module defines embedder nowhere
\* else, so the lookup of the name raises on every call
get_embedding(text) == [raised |-> TRUE, error |-> NameErrorText]

----------------------------------------------------------------------------
(* chunk_text on its own: every text up to MaxLen, every max_words up to   *)
(* MaxUnits.                                                               *)

Texts == UNION {[1..n -> Chars] : n \in 0..MaxLen}

ChunkText ==
    /\ ~cDone
    /\ cChunks' = chunk_text(cText, cMax)
    /\ cDone' = TRUE
    /\ UNCHANGED <<cText, cMax, storeVars, session, sel, gen>>

----------------------------------------------------------------------------
(* Inputs of the requests *)

\* the names of the uploaded files: a text file and a file of an
\* unsupported type
FileNames == {"a.txt", "x.bin"}

\* the contents of an upload: a whitespace-only text and a text of two words
Contents == {<<" ">>, <<"a", " ", "b">>}

\* ext = filename.lower().split(".")[-1]
Ext(name) == IF name = "x.bin" THEN "bin" ELSE "txt"

\* the extensions with an extraction branch
SupportedExt(impl) ==
    IF impl = "api" THEN {"txt", "pdf", "csv", "docx"} ELSE {"txt", "pdf", "csv"}

\* source labels of the stored rows and of the delete requests
Sources == {"a.txt", "b.txt"}

Questions == {<<"a">>, <<"b">>}

\* what the answer generator replies
GeneratedAnswers == {"generated answer"}

Sentinel == "No relevant information found in your documents."

----------------------------------------------------------------------------
(* The tables: src/app/models.py 16-33 *)

\* a row of documents; the embedding stands for the Vector(384) column
Document(id, chunk, embedding, source, user_id) ==
    [id |-> id, chunk |-> chunk, embedding |-> embedding, source |-> source,
     user_id |-> user_id]

\* a row of chat_history
ChatHistory(id, question, answer, user_id) ==
    [id |-> id, question |-> question, answer |-> answer, user_id |-> user_id]

\* the documents tables of n rows with ids 1..n, the sources among sources
\* and the embeddings among vectors
DocumentTables(n, sources, vectors) ==
    {[i \in 1..n |-> Document(i, <<"a">>, f[i][3], f[i][2], f[i][1])] :
        f \in [1..n -> Users \X sources \X vectors]}

\* the chat_history tables of n rows with ids 1..n
HistoryTables(n) ==
    {[i \in 1..n |-> ChatHistory(i, f[i][2], "generated answer", f[i][1])] :
        f \in [1..n -> Users \X Questions]}

\* the embedding of the rows where no statement reads it
StoredVector == <<0, 0>>

\* no file in /tmp
NoFile == [ino |-> 0, data |-> <<>>]

----------------------------------------------------------------------------
(* Requests *)

\* content is the upload, extracted the text the handler has read from its
\* file and gives to chunk_text
Idle ==
    [pc |-> "idle", op |-> "none", impl |-> "none", user |-> 0, file |-> "",
     content |-> <<>>, extracted |-> <<>>, ino |-> 0, question |-> <<>>, ids |-> {},
     fault |-> "none", count |-> 0, stamp |-> 0,
     kind |-> "none", status |-> TRUE, text |-> ""]

\* client r may issue its next request: it has none in progress
Start(r) ==
    /\ req[r].pc \in {"idle", "done"}
    /\ started < MaxRequests

\* client r issues the request rq, numbered (stamp) in the order of the
\* calls.  req keeps the requests in progress and the responses that no
\* call has followed.
Issue(r, rq) ==
    /\ started' = started + 1
    /\ req' = [c \in Reqs |->
                 IF c = r THEN [rq EXCEPT !.stamp = started + 1]
                 ELSE IF req[c].pc = "done" THEN Idle
                 ELSE req[c]]

\* a handler that ended by raising
Raised(rq, fault, text) ==
    [rq EXCEPT !.pc = "done", !.fault = fault, !.kind = "raised",
               !.status = FALSE, !.text = text]

\* a handler that ended by returning
Returned(rq, status, text) ==
    [rq EXCEPT !.pc = "done", !.kind = "returned", !.status = status, !.text = text]

----------------------------------------------------------------------------
(* ingest_file of the api: src/app/main.py 74-113 *)

\* the steps of a handler that the finally clause still follows
Ending(rq) == [rq EXCEPT !.pc = "finally"]

\* f.write at offset 0 of a file that holds data
Overwrite(data, content) ==
    content \o SubSeq(data, Len(content) + 1, Len(data))

\* temp_path = f"/tmp/{file.filename}"; open(temp_path, "wb"): the file is
\* created, or truncated when another request has it there
ApiIngestOpen(r, u, f, content) ==
    /\ Start(r)
    /\ tmp' = [tmp EXCEPT ![f] = IF @.ino = 0
                                 THEN [ino |-> started + 1, data |-> <<>>]
                                 ELSE [@ EXCEPT !.data = <<>>]]
    /\ Issue(r, [Idle EXCEPT !.pc = "opened", !.op = "ingest", !.impl = "api",
                             !.user = u, !.file = f, !.content = content,
                             !.ino = tmp'[f].ino])
    /\ UNCHANGED <<documents, history, harnessVars>>

\* f.write(file.file.read()) and the end of the with block: the bytes go to
\* the file that was opened, which the path names no more when another
\* request has removed it
ApiIngestWrite(r) ==
    /\ req[r].pc = "opened"
    /\ tmp' = [tmp EXCEPT ![req[r].file] =
                 IF @.ino = req[r].ino
                 THEN [@ EXCEPT !.data = Overwrite(@, req[r].content)]
                 ELSE @]
    /\ req' = [req EXCEPT ![r].pc = "written"]
    /\ UNCHANGED <<documents, history, started, harnessVars>>

\* lines 85-107: the extension test, open(temp_path, "r") and f.read(),
\* chunk_text, and the loop, whose first get_embedding raises
ApiIngestLoad(r) ==
    /\ req[r].pc = "written"
    /\ LET rq == req[r]
           file == tmp[rq.file]
           text == file.data
           chunks == chunk_text(text, DefaultMaxWords)
           loaded == [rq EXCEPT !.extracted = text]
       IN  req' = [req EXCEPT ![r] =
               IF Ext(rq.file) \notin SupportedExt("api")
               THEN Ending(Raised(rq, "none", "Unsupported file type"))
               ELSE IF file.ino = 0
               THEN Ending(Raised(rq, "file", "No such file or directory"))
               ELSE IF chunks = <<>>
               THEN [loaded EXCEPT !.pc = "commit"]
               ELSE IF get_embedding(chunks[1]).raised
               THEN Ending(Raised(loaded, "embed", get_embedding(chunks[1]).error))
               ELSE loaded]
    /\ UNCHANGED <<documents, history, started, tmp, harnessVars>>

\* finally: os.path.exists(temp_path)
ApiIngestExists(r) ==
    /\ req[r].pc = "finally"
    /\ req' = [req EXCEPT ![r].pc = IF tmp[req[r].file].ino = 0 THEN "done" ELSE "remove"]
    /\ UNCHANGED <<documents, history, started, tmp, harnessVars>>

\* finally: os.remove(temp_path), which raises when another request has
\* removed the file since the test
ApiIngestRemove(r) ==
    /\ req[r].pc = "remove"
    /\ IF tmp[req[r].file].ino = 0
       THEN /\ req' = [req EXCEPT ![r] =
                        Raised(req[r], "file", "No such file or directory")]
            /\ UNCHANGED tmp
       ELSE /\ req' = [req EXCEPT ![r].pc = "done"]
            /\ tmp' = [tmp EXCEPT ![req[r].file] = NoFile]
    /\ UNCHANGED <<documents, history, started, harnessVars>>

----------------------------------------------------------------------------
(* ingest_file of the ui: src/frontend.py 78-120 *)

\* the function up to db.commit(): the text goes through a temporary file
\* of its own (NamedTemporaryFile), then chunk_text and the loop
UiIngestLoad(r, u, f, content) ==
    /\ Start(r)
    /\ LET rq == [Idle EXCEPT !.op = "ingest", !.impl = "ui", !.user = u,
                              !.file = f, !.content = content]
           text == content
           chunks == chunk_text(text, DefaultMaxWords)
           loaded == [rq EXCEPT !.extracted = text]
       IN  Issue(r,
               IF Ext(f) \notin SupportedExt("ui")
               THEN Returned(rq, FALSE, "Unsupported file type")
               ELSE IF chunks = <<>>
               THEN [loaded EXCEPT !.pc = "commit"]
               ELSE IF get_embedding(chunks[1]).raised
               THEN [Returned(loaded, FALSE, get_embedding(chunks[1]).error)
                        EXCEPT !.fault = "embed"]
               ELSE loaded)
    /\ UNCHANGED <<documents, history, tmp, harnessVars>>

----------------------------------------------------------------------------
(* db.commit() of ingest_file: src/app/main.py 109-110, src/frontend.py 115-116 *)

\* the loop has added no object (it has run for no chunk): the commit
\* stores nothing; count is the number of rows it has stored
IngestCommit(r) ==
    /\ req[r].pc = "commit"
    /\ documents' = documents
    /\ LET rq == [req[r] EXCEPT !.count = Len(documents') - Len(documents)]
       IN  req' = [req EXCEPT ![r] =
                    IF rq.impl = "api"
                    THEN Ending(Returned(rq, TRUE, "ingested"))
                    ELSE Returned(rq, TRUE, "ingested")]
    /\ UNCHANGED <<history, started, tmp, harnessVars>>

\* db.commit() raises.  The session of the api request has read the user
\* (get_current_user) and ends that transaction; the session of the ui
\* function has sent nothing to the database.
IngestCommitFail(r) ==
    /\ req[r].pc = "commit"
    /\ req[r].impl = "api"
    /\ req' = [req EXCEPT ![r] = Ending(Raised(req[r], "store", "commit failed"))]
    /\ UNCHANGED <<documents, history, started, tmp, harnessVars>>

----------------------------------------------------------------------------
(* ask_question: src/app/main.py 115-138, src/frontend.py 123-153 *)

\* f"Error: {str(e)}" of the NameError
UiErrorText == "Error: name 'embedder' is not defined"

\* get_embedding(query) raises: the api lets the exception out, the ui
\* returns it as the answer.  The statements after it (the select, the call
\* of ask_mistral, the history entry) are not reached.
Ask(r, impl, u, q) ==
    /\ Start(r)
    /\ get_embedding(q).raised
    /\ LET rq == [Idle EXCEPT !.op = "ask", !.impl = impl, !.user = u, !.question = q]
       IN  Issue(r, IF impl = "api" THEN Raised(rq, "embed", get_embedding(q).error)
                    ELSE [Returned(rq, TRUE, UiErrorText) EXCEPT !.fault = "embed"])
    /\ UNCHANGED <<documents, history, tmp, harnessVars>>

----------------------------------------------------------------------------
(* delete_documents_by_source: src/app/main.py 145-161, src/frontend.py 184-200 *)

\* a delete that filters on the label alone
MatchesSourceOnly(d, u, source) == d.source = source

\* .filter(Document.user_id == current_user.id, Document.source == source)
Matches(d, u, source) == d.user_id = u /\ d.source = source

MatchCount(docs, u, source) ==
    Cardinality({i \in 1..Len(docs) : Matches(docs[i], u, source)})

\* db.query(Document).filter(user_id, source).delete(); db.commit().  When
\* the statement or the commit raises, the rows stay: the api lets the
\* exception out, the ui returns 0.
DeleteBySource(r, impl, u, source) ==
    /\ Start(r)
    /\ LET deleted_count == MatchCount(documents, u, source)
           rq == [Idle EXCEPT !.op = "delete", !.impl = impl, !.user = u,
                              !.file = source]
       IN  \/ /\ documents' = SelectSeq(documents, LAMBDA d : ~Matches(d, u, source))
              /\ Issue(r, IF impl = "api" /\ deleted_count = 0
                          THEN Raised(rq, "none", "No documents found for this source")
                          ELSE [Returned(rq, TRUE, "deleted")
                                   EXCEPT !.count = deleted_count])
           \/ /\ documents' = documents
              /\ Issue(r, IF impl = "api" THEN Raised(rq, "store", "commit failed")
                          ELSE [Returned(rq, TRUE, "deleted") EXCEPT !.fault = "store"])
    /\ UNCHANGED <<history, tmp, harnessVars>>

----------------------------------------------------------------------------
(* delete_chat_history: src/frontend.py 202-217 *)

\* a delete that filters on the ids alone
HistoryFilterMissing(h, u, ids) == h.id \in ids

\* .filter(ChatHistory.id.in_(history_ids), ChatHistory.user_id == current_user.id)
HistoryFilter(h, u, ids) == h.id \in ids /\ h.user_id = u

\* if not history_ids: return 0; the delete and its commit; when one of
\* them raises, the rows stay and the function returns 0
DeleteChatHistory(r, u, ids) ==
    /\ Start(r)
    /\ LET rq == [Idle EXCEPT !.op = "delete_history", !.impl = "ui", !.user = u,
                              !.ids = ids]
           hit == {i \in 1..Len(history) : HistoryFilter(history[i], u, ids)}
       IN  \/ /\ ids = {}
              /\ Issue(r, Returned(rq, TRUE, "deleted"))
              /\ history' = history
           \/ /\ ids # {}
              /\ history' = SelectSeq(history, LAMBDA h : ~HistoryFilter(h, u, ids))
              /\ Issue(r, [Returned(rq, TRUE, "deleted") EXCEPT !.count = Cardinality(hit)])
           \/ /\ ids # {}
              /\ history' = history
              /\ Issue(r, [Returned(rq, TRUE, "deleted") EXCEPT !.fault = "store"])
    /\ UNCHANGED <<documents, tmp, harnessVars>>

----------------------------------------------------------------------------
(* The Streamlit script: src/frontend.py 25-35 (session state), 220-329 (main) *)

\* the client that is the browser session, and the client of the api
UiClient == 1
ApiClient == 2

\* init_session_state, and the state after Logout.  current_user 0 is None;
\* sources is the list the Manage Documents box shows; pc is the place of
\* the script: "ready" between two runs, "listed" after get_document_sources
\* in the run of the Delete Document button
LoggedOut ==
    [authenticated |-> FALSE, current_user |-> 0, chat_history |-> <<>>,
     sources |-> {}, pc |-> "ready"]

\* the script is between two runs: no function of it is in progress
UiReady == session.pc = "ready" /\ req[UiClient].pc \in {"idle", "done"}

\* an entry of st.session_state.chat_history (the timestamp is display only)
ChatEntry(id, question, answer) ==
    [id |-> id, question |-> question, answer |-> answer]

Reverse(list) == [i \in 1..Len(list) |-> list[Len(list) + 1 - i]]

\* get_chat_history: the entries of the user, newest first
get_chat_history(rows, u) ==
    LET mine == SelectSeq(rows, LAMBDA h : h.user_id = u)
    IN  Reverse([i \in 1..Len(mine) |->
                    ChatEntry(mine[i].id, mine[i].question, mine[i].answer)])

\* get_document_sources: the distinct sources of the user's rows
get_document_sources(rows, u) ==
    {rows[i].source : i \in {j \in 1..Len(rows) : rows[j].user_id = u}}

\* "id": max(item['id'] ...) + 1 if st.session_state.chat_history else 1
NewMessageId(chat_history) ==
    IF chat_history = <<>> THEN 1
    ELSE LET cached == {chat_history[i].id : i \in DOMAIN chat_history}
         IN  (CHOOSE m \in cached : \A k \in cached : k <= m) + 1

\* login of a registered user; get_chat_history returns [] when its query
\* raises
UiLogin(u) ==
    /\ ~session.authenticated
    /\ UiReady
    /\ \E list \in {get_chat_history(history, u), <<>>} :
          session' = [authenticated |-> TRUE, current_user |-> u,
                      chat_history |-> list, sources |-> {}, pc |-> "ready"]
    /\ UNCHANGED <<storeVars, harnessVars>>

\* the Logout button
UiLogout ==
    /\ session.authenticated
    /\ UiReady
    /\ session' = LoggedOut
    /\ UNCHANGED <<storeVars, harnessVars>>

\* the file uploader, type=["pdf", "txt", "csv"]:
\* ingest_file(uploaded_file, uploaded_file.name)
UiUpload(f, content) ==
    /\ session.authenticated
    /\ UiReady
    /\ Ext(f) \in {"pdf", "txt", "csv"}
    /\ UiIngestLoad(UiClient, session.current_user, f, content)
    /\ UNCHANGED session

\* the run of the Delete Document button, first part: sources =
\* get_document_sources(), which returns [] when its query raises.  With no
\* source the box shows st.info and the run goes on without a delete.
UiListSources ==
    /\ session.authenticated
    /\ UiReady
    /\ \E list \in {get_document_sources(documents, session.current_user), {}} :
          session' = [session EXCEPT !.sources = list,
                                     !.pc = IF list = {} THEN "ready" ELSE "listed"]
    /\ UNCHANGED <<storeVars, harnessVars>>

\* second part: delete_documents_by_source(selected_source), in a
\* transaction of its own
UiDeleteDocument(source) ==
    /\ session.pc = "listed"
    /\ source \in session.sources
    /\ DeleteBySource(UiClient, "ui", session.current_user, source)
    /\ session' = [session EXCEPT !.pc = "ready"]

\* the chat input: new_message is put first in the list, ask_question is
\* called, and chat_history[0]["answer"] = response
UiPrompt(q) ==
    /\ session.authenticated
    /\ UiReady
    /\ Ask(UiClient, "ui", session.current_user, q)
    /\ session' = [session EXCEPT
                     !.chat_history =
                         <<ChatEntry(NewMessageId(session.chat_history), q,
                                     req'[UiClient].text)>> \o @]

\* the Clear Selected Chat History button with the entries of selected
\* ticked: delete_chat_history(selected_messages), then, when it has
\* deleted a row, st.success and the new list.  The run may be abandoned at
\* st.success (the browser has asked for another run): the list stays.
UiClear(selected) ==
    /\ session.authenticated
    /\ UiReady
    /\ selected # {}
    /\ DeleteChatHistory(UiClient, session.current_user, selected)
    /\ LET cleared == [session EXCEPT !.chat_history =
                          SelectSeq(@, LAMBDA chat : chat.id \notin selected)]
       IN  session' \in IF req'[UiClient].count > 0 THEN {cleared, session}
                        ELSE {session}

----------------------------------------------------------------------------
(* The select statement of ask_question: src/app/main.py 119-125,          *)
(* src/frontend.py 127-133                                                 *)

\* Document.embedding.l2_distance(query_vector), squared: the order is the same
l2_distance(v, w) == (v[1] - w[1]) * (v[1] - w[1]) + (v[2] - w[2]) * (v[2] - w[2])

\* a query with no owner filter
OwnerFilterMissing(d, u) == TRUE

\* .filter(Document.user_id == current_user.id)
OwnerFilter(d, u) == d.user_id = u

\* select(Document).filter(...).order_by(l2_distance).limit(3): the rows the
\* statement may return.  ORDER BY names the distance alone, so rows at equal
\* distance come in whatever order the database produces.
SelectTopDocs(docs, u, qv) ==
    LET cand == SelectSeq(docs, LAMBDA d : OwnerFilter(d, u))
        n == Len(cand)
        m == Min(TopK, n)
        dist(i) == l2_distance(cand[i].embedding, qv)
        ok(p) ==
            /\ \A i, j \in 1..m : i < j => p[i] # p[j] /\ dist(p[i]) <= dist(p[j])
            /\ \A k \in 1..n :
                  (\A i \in 1..m : p[i] # k) => \A i \in 1..m : dist(p[i]) <= dist(k)
    IN  {[i \in 1..m |-> cand[p[i]]] : p \in {p \in [1..m -> 1..n] : ok(p)}}

\* the vectors of the rows and of the queries in SelectSpec
Vectors == {<<0, 0>>, <<1, 0>>, <<0, 2>>}

\* the statement has not run
NotSelected == [user |-> 0, qv |-> <<0, 0>>, top |-> <<>>, done |-> FALSE]

\* top_docs = db.execute(stmt).scalars().all()
Select ==
    /\ ~sel.done
    /\ sel.user \in Users
    /\ \E top \in SelectTopDocs(documents, sel.user, sel.qv) :
          sel' = [sel EXCEPT !.top = top, !.done = TRUE]
    /\ UNCHANGED <<storeVars, session, gen, chunkVars>>

----------------------------------------------------------------------------
(* ask_mistral: src/app/mistral_api.py 10-31 *)

\* the function has not been called
NotCalled == [question |-> <<>>, context_docs |-> <<>>, pc |-> "none", content |-> ""]

\* the lists of chunks given as context_docs
Contexts == UNION {[1..n -> Questions] : n \in 0..MaxContext}

\* lines 11-30: the prompt and the payload are built and requests.post
\* sends them; the call has no timeout argument
MistralPost ==
    /\ gen.pc = "start"
    /\ gen' = [gen EXCEPT !.pc = "posted"]
    /\ UNCHANGED <<storeVars, session, sel, chunkVars>>

\* requests.post returns and the reply holds choices[0]
MistralRespond(a) ==
    /\ gen.pc = "posted"
    /\ gen' = [gen EXCEPT !.pc = "returned", !.content = a]
    /\ UNCHANGED <<storeVars, session, sel, chunkVars>>

\* requests.post raises (the connection fails), or the reply holds no choices
MistralFail ==
    /\ gen.pc = "posted"
    /\ gen' = [gen EXCEPT !.pc = "raised"]
    /\ UNCHANGED <<storeVars, session, sel, chunkVars>>

----------------------------------------------------------------------------
(* Specifications *)

\* the tables hold MaxRows rows at most when a behaviour starts
Init ==
    /\ \E n \in 0..MaxRows, m \in 0..MaxRows :
          /\ n + m <= MaxRows
          /\ documents \in DocumentTables(n, Sources, {StoredVector})
          /\ history \in HistoryTables(m)
    /\ req = [r \in Reqs |-> Idle]
    /\ started = 0
    /\ tmp = [f \in FileNames |-> NoFile]
    /\ session = LoggedOut
    /\ sel = NotSelected
    /\ gen = NotCalled
    /\ cText = <<>>
    /\ cMax = 1
    /\ cChunks = <<>>
    /\ cDone = FALSE

Next ==
    \/ \E r \in Reqs, u \in Users, f \in FileNames, c \in Contents : ApiIngestOpen(r, u, f, c)
          /\ UNCHANGED session
    \/ \E r \in Reqs : ApiIngestWrite(r)
          /\ UNCHANGED session
    \/ \E r \in Reqs : ApiIngestLoad(r)
          /\ UNCHANGED session
    \/ \E r \in Reqs : ApiIngestExists(r)
          /\ UNCHANGED session
    \/ \E r \in Reqs : ApiIngestRemove(r)
          /\ UNCHANGED session
    \/ \E r \in Reqs, u \in Users, f \in FileNames, c \in Contents : UiIngestLoad(r, u, f, c)
          /\ UNCHANGED session
    \/ \E r \in Reqs : IngestCommit(r)
          /\ UNCHANGED session
    \/ \E r \in Reqs : IngestCommitFail(r)
          /\ UNCHANGED session
    \/ \E r \in Reqs, impl \in Impls, u \in Users, q \in Questions : Ask(r, impl, u, q)
          /\ UNCHANGED session
    \/ \E r \in Reqs, impl \in Impls, u \in Users, s \in Sources : DeleteBySource(r, impl, u, s)
          /\ UNCHANGED session
    \/ \E r \in Reqs, u \in Users, ids \in SUBSET (1..MaxRows) : DeleteChatHistory(r, u, ids)
          /\ UNCHANGED session

Spec == Init /\ [][Next]_vars

\* one browser session of the ui (UiClient) and one client of the api
NextUi ==
    \/ \E u \in Users : UiLogin(u)
    \/ UiLogout
    \/ \E f \in FileNames, c \in Contents : UiUpload(f, c)
    \/ IngestCommit(UiClient) /\ UNCHANGED session
    \/ UiListSources
    \/ \E source \in Sources : UiDeleteDocument(source)
    \/ \E q \in Questions : UiPrompt(q)
    \/ \E selected \in SUBSET {session.chat_history[i].id : i \in DOMAIN session.chat_history} :
          UiClear(selected)
    \/ \E u \in Users, s \in Sources : DeleteBySource(ApiClient, "api", u, s)
          /\ UNCHANGED session

UiSpec == Init /\ [][NextUi]_vars

InitChunk ==
    /\ documents = <<>>
    /\ history = <<>>
    /\ req = [r \in Reqs |-> Idle]
    /\ started = 0
    /\ tmp = [f \in FileNames |-> NoFile]
    /\ session = LoggedOut
    /\ sel = NotSelected
    /\ gen = NotCalled
    /\ cText \in Texts
    /\ cMax \in 1..MaxUnits
    /\ cChunks = <<>>
    /\ cDone = FALSE

NextChunk == ChunkText

ChunkSpec == InitChunk /\ [][NextChunk]_vars

InitSelect ==
    /\ \E n \in 0..MaxSelectRows : documents \in DocumentTables(n, {"a.txt"}, Vectors)
    /\ history = <<>>
    /\ req = [r \in Reqs |-> Idle]
    /\ started = 0
    /\ tmp = [f \in FileNames |-> NoFile]
    /\ session = LoggedOut
    /\ \E u \in Users, qv \in Vectors : sel = [NotSelected EXCEPT !.user = u, !.qv = qv]
    /\ gen = NotCalled
    /\ cText = <<>>
    /\ cMax = 1
    /\ cChunks = <<>>
    /\ cDone = FALSE

NextSelect == Select

SelectSpec == InitSelect /\ [][NextSelect]_vars

InitGen ==
    /\ documents = <<>>
    /\ history = <<>>
    /\ req = [r \in Reqs |-> Idle]
    /\ started = 0
    /\ tmp = [f \in FileNames |-> NoFile]
    /\ session = LoggedOut
    /\ sel = NotSelected
    /\ \E q \in Questions, c \in Contexts :
          gen = [NotCalled EXCEPT !.question = q, !.context_docs = c, !.pc = "start"]
    /\ cText = <<>>
    /\ cMax = 1
    /\ cChunks = <<>>
    /\ cDone = FALSE

NextGen ==
    \/ MistralPost
    \/ \E a \in GeneratedAnswers : MistralRespond(a)
    \/ MistralFail

\* the function runs by itself up to requests.post; the reply comes from
\* the network
GenSpec == InitGen /\ [][NextGen]_vars /\ WF_vars(MistralPost)

----------------------------------------------------------------------------
(* Properties *)

\* the step is the call of op by client r
Calls(r, op) ==
    /\ started' = started + 1
    /\ req'[r].stamp = started'
    /\ req'[r].op = op

Rows(table) == {table[i] : i \in DOMAIN table}

(* C1 *)

\* C1: the rows a query of an owner returns all have that owner as user_id,
\* whatever rows of other owners the table holds.
C1_OwnerIsolation ==
    sel.done => \A i \in DOMAIN sel.top : sel.top[i].user_id = sel.user

\* a query has returned rows while a row of another owner is nearer to the
\* query vector than one of them
C1_Witness ==
    /\ sel.done
    /\ sel.top # <<>>
    /\ \E d \in Rows(documents), i \in DOMAIN sel.top :
          /\ d.user_id # sel.user
          /\ l2_distance(d.embedding, sel.qv) < l2_distance(sel.top[i].embedding, sel.qv)

(* C2 *)

\* the owner's rows sorted by ascending distance to qv, rows at the same
\* distance by ascending id, cut after TopK rows
RankedTop(docs, u, qv) ==
    LET cand == SelectSeq(docs, LAMBDA d : d.user_id = u)
        n == Len(cand)
        before(i, j) ==
            \/ l2_distance(cand[i].embedding, qv) < l2_distance(cand[j].embedding, qv)
            \/ /\ l2_distance(cand[i].embedding, qv) = l2_distance(cand[j].embedding, qv)
               /\ cand[i].id < cand[j].id
        rank(i) == Cardinality({j \in 1..n : before(j, i)}) + 1
    IN  [k \in 1..Min(TopK, n) |-> cand[CHOOSE i \in 1..n : rank(i) = k]]

\* C2: the query returns the first min(TopK, n) of the owner's n rows in
\* ascending distance, rows at equal distance in id order.
C2_RankedByDistanceThenId ==
    sel.done => sel.top = RankedTop(documents, sel.user, sel.qv)

(* C3 *)

\* the text with every run of whitespace replaced by one space and the
\* whitespace at both ends removed
RECURSIVE NormalizeFrom(_, _, _)
NormalizeFrom(t, i, gap) ==
    IF i > Len(t) THEN <<>>
    ELSE IF t[i] \in Whitespace THEN NormalizeFrom(t, i + 1, TRUE)
    ELSE (IF gap THEN <<" ">> ELSE <<>>) \o <<t[i]>> \o NormalizeFrom(t, i + 1, FALSE)

RECURSIVE StripLeft(_)
StripLeft(t) ==
    IF t # <<>> /\ Head(t) \in Whitespace THEN StripLeft(Tail(t)) ELSE t

Normalize(t) == NormalizeFrom(StripLeft(t), 1, FALSE)

\* ' '.join of a list, one element after the other
RECURSIVE JoinWithSpaces(_)
JoinWithSpaces(list) ==
    IF list = <<>> THEN <<>>
    ELSE IF Len(list) = 1 THEN list[1]
    ELSE list[1] \o <<" ">> \o JoinWithSpaces(Tail(list))

\* number of tokens of a chunk
Tokens(c) ==
    Cardinality({i \in 1..Len(c) :
                    c[i] \notin Whitespace /\ (i = 1 \/ c[i - 1] \in Whitespace)})

\* C3: chunk_text returns chunks which, joined with single spaces, are the
\* whitespace-normalized text; every chunk has 1..max_words tokens, every
\* chunk but the last has max_words, and a text without a word gives no chunk.
C3_ChunkingLossless ==
    cDone =>
        /\ JoinWithSpaces(cChunks) = Normalize(cText)
        /\ \A i \in DOMAIN cChunks :
              /\ Tokens(cChunks[i]) >= 1
              /\ Tokens(cChunks[i]) <= cMax
              /\ i < Len(cChunks) => Tokens(cChunks[i]) = cMax
        /\ (\A i \in DOMAIN cText : cText[i] \in Whitespace) => cChunks = <<>>

\* two chunks, the last one short, from a text that normalization changes
C3_Witness ==
    /\ cDone
    /\ Len(cChunks) = 2
    /\ Tokens(cChunks[2]) < cMax
    /\ JoinWithSpaces(cChunks) # cText


(* C4 *)

\* C4: a question of an owner with no stored row returns the sentinel answer
\* and appends one chat_history row with the question, the sentinel and the
\* owner.
C4_EmptyRetrievalLogged ==
    [][\A r \in Reqs :
          (/\ Calls(r, "ask")
           /\ \A d \in Rows(documents) : d.user_id # req'[r].user)
          => /\ req'[r].kind = "returned"
             /\ req'[r].text = Sentinel
             /\ Len(history') = Len(history) + 1
             /\ SubSeq(history', 1, Len(history)) = history
             /\ history'[Len(history')].question = req'[r].question
             /\ history'[Len(history')].answer = Sentinel
             /\ history'[Len(history')].user_id = req'[r].user]_vars

(* C6 *)

\* C6: a question whose embedding fails writes no chat_history row and ends
\* in a failure, not in a returned answer text.
C6_DependencyFailureSurfaced ==
    [][\A r \in Reqs :
          (Calls(r, "ask") /\ req'[r].fault = "embed")
          => /\ history' = history
             /\ req'[r].kind = "raised"]_vars

(* C7 *)

\* C7: a delete by source returns the number of matching rows and does not
\* end in an error; when the call before it was the same delete, it returns 0.
C7_DeleteTwice ==
    [][\A r \in Reqs :
          Calls(r, "delete")
          => /\ req'[r].kind = "returned"
             /\ req'[r].count =
                   Cardinality({d \in Rows(documents) :
                                   d.user_id = req'[r].user /\ d.source = req'[r].file})
             /\ \A r1 \in Reqs :
                   (/\ req[r1].op = "delete"
                    /\ req[r1].stamp = started
                    /\ req[r1].user = req'[r].user
                    /\ req[r1].file = req'[r].file)
                   => req'[r].count = 0]_vars

(* C8 *)

\* C8: delete_chat_history(ids) of an owner returns, does not raise, removes
\* rows of that owner with an id in ids only and returns their number; the
\* rows of other owners stay, with an id in ids or not; when the statement
\* and its commit run, the rows removed are all the rows of the owner with an
\* id in ids.
C8_HistoryDeleteOwnerScoped ==
    [][\A r \in Reqs :
          Calls(r, "delete_history")
          => LET u == req'[r].user
                 ids == req'[r].ids
                 removed == Rows(history) \ Rows(history')
                 owned == {h \in Rows(history) : h.id \in ids /\ h.user_id = u}
             IN  /\ req'[r].kind = "returned"
                 /\ history' = SelectSeq(history, LAMBDA h : h \notin removed)
                 /\ removed \subseteq owned
                 /\ req'[r].count = Cardinality(removed)
                 /\ req'[r].fault = "none" => removed = owned]_vars

\* a delete has removed a row of its owner and the row of another owner,
\* whose id was in ids too, is in the table
C8_Witness ==
    \E r \in Reqs :
       /\ req[r].pc = "done"
       /\ req[r].op = "delete_history"
       /\ req[r].count >= 1
       /\ \E h \in Rows(history) : h.id \in req[r].ids /\ h.user_id # req[r].user

(* C9 *)

C10_QueryEnds ==
    (gen.pc = "posted") ~> (gen.pc \in {"returned", "raised"})

(* C11 *)

\* C11: a delete by source of an owner leaves in place, and in order, every
\* row of another owner or of another source, and leaves chat_history as it
\* was.
C11_DeleteFrame ==
    [][\A r \in Reqs :
          Calls(r, "delete")
          => LET other(d) == d.user_id # req'[r].user \/ d.source # req'[r].file
             IN  /\ SelectSeq(documents', other) = SelectSeq(documents, other)
                 /\ history' = history]_vars

\* a delete has removed rows of its owner and a row of another owner with
\* the same source is in the table
C11_Witness ==
    \E r \in Reqs :
       /\ req[r].pc = "done"
       /\ req[r].op = "delete"
       /\ req[r].count >= 1
       /\ \E d \in Rows(documents) : d.source = req[r].file /\ d.user_id # req[r].user

(* C12 *)

\* C12: between two runs of the script, every entry of the session's chat
\* list has the id of a chat_history row of the current user with the same
\* question.
C12_CacheAgreesWithLog ==
    (session.authenticated /\ UiReady)
    => \A i \in DOMAIN session.chat_history :
          \E h \in Rows(history) :
             /\ h.id = session.chat_history[i].id
             /\ h.user_id = session.current_user
             /\ h.question = session.chat_history[i].question

=============================================================================
